---- MODULE Spec2Model ----
(***************************************************************************)
(* AtomicResizable<T> (src/src/utils.h): an active and an inactive T, an   *)
(* atomic needs_swap flag and a resize mutex.  One audio (reader) thread   *)
(* calls get(), one or more control (writer) threads call                  *)
(* resize_and_clear().  Every statement of the two methods is one step,    *)
(* std::swap is its three moves, and the caller supplied resize function   *)
(* is a two step mutation that may also throw.                             *)
(***************************************************************************)
EXTENDS Integers, Sequences, FiniteSets, TLC

\* ---- bounds ----
MaxSize == 2
InitSize == 1

\* the control threads that call resize_and_clear()
Writers == {"w1", "w2"}
Sizes == 1..MaxSize
NoWriter == "none"

\* ---- values of T ----
\* A T is an instance (id: which of the two objects made at construction,
\* 0 for an object that holds none of them), its size (0: no single size,
\* the resize function is half way) and its content.
Val(i, s, c) == [id |-> i, size |-> s, content |-> c]
InitialValue(i) == Val(i, InitSize, "initial")
\* the state std::move leaves its source in, and of a dead temporary
MovedFrom == Val(0, 0, "moved")
\* the resize function has started on v and not finished
Partial(v) == Val(v.id, 0, "partial")
\* the resize function has finished on v with size n
Resized(v, n) == Val(v.id, n, "cleared")

VARIABLES
  needs_swap,     \* std::atomic_bool needs_swap
  resize_mutex,   \* holder of resize_mutex, NoWriter when free
  active,         \* T active
  inactive,       \* T inactive
  tmp,            \* the temporary of std::swap
  rpc,            \* position of the reader inside get()
  wpc,            \* position of every writer inside resize_and_clear()
  new_size,       \* argument of every writer's call
  target,         \* instance the running resize function started on
  returned,       \* what the last get() returned (value of active then)
  retInactive,    \* inactive when the last get() returned
  retPending,     \* needs_swap when the last get() returned
  getSteps,       \* steps taken by the get() call in progress
  dirtySF,        \* a resize_and_clear started or ended since the last return of get()
  dirtyW,         \* a writer took any step since the last return of get()
  anyFailed,      \* some resize function invocation has thrown
  lastCompleted,  \* size of the last normally returned resize_and_clear; 0 if
                  \* none, and from the first failed invocation on
  expect,         \* size the get() in progress is due to return, 0 if none is due
  failedActive,   \* id of the active instance as the last failed call ended; 0
                  \* if none, and once a later call has set needs_swap
  expectFail,     \* failedActive when the get() in progress began, 0 once a
                  \* call has set needs_swap since
  sequential,     \* no two calls have overlapped so far
  since,          \* outcomes of the calls since the last get(), while sequential
  retCtx,         \* value of since when the last get() returned
  pub,            \* what became of the last needs_swap = true: "set", then
                  \* "returned" (the call returned, no other call running),
                  \* "returnedBusy" (it returned, another call was running);
                  \* "none" once get() has consumed it or a call has started
  pre,            \* needs_swap, active and inactive when the get() in progress
                  \* began, NoPre once a writer has taken a step since
  credit,         \* stores of needs_swap = true (counted up to MaxCredit)
                  \* less swaps
  setSinceSwap,   \* needs_swap = true was stored since the last swap
  history         \* the history variables (returned .. setSinceSwap) are recorded

vars == <<needs_swap, resize_mutex, active, inactive, tmp, rpc, wpc, new_size,
          target, returned, retInactive, retPending, getSteps, dirtySF, dirtyW,
          anyFailed, lastCompleted, expect, failedActive, expectFail,
          sequential, since, retCtx, pub, pre, credit, setSinceSwap,
          history>>

slotVars == <<needs_swap, resize_mutex, active, inactive, tmp, history>>
readerGhost == <<returned, retInactive, retPending>>
failGhost == <<anyFailed, lastCompleted, failedActive>>
seqGhost == <<sequential, since, retCtx>>

NoValue == Val(0, 0, "none")
MaxLog == 2
MaxCredit == 2
NoPre == [flag |-> FALSE, active |-> NoValue, inactive |-> NoValue]

WritersIdle == \A w \in Writers : wpc[w] = "idle"
AllIdle == rpc = "idle" /\ WritersIdle
\* keep the last MaxLog entries
Log(s, e) == IF Len(s) < MaxLog THEN Append(s, e) ELSE Append(Tail(s), e)

\* a history variable x takes the value v where histories are recorded
G(x, v) == IF history THEN v ELSE x

\* ---- construction ----
\* as Constructed, with inactive default constructed instead of copied
ConstructedNoCopy ==
  /\ needs_swap = FALSE
  /\ resize_mutex = NoWriter
  /\ active = InitialValue(1)
  /\ inactive = Val(2, 0, "initial")
  /\ tmp = MovedFrom
  /\ rpc = "idle"
  /\ wpc = [w \in Writers |-> "idle"]
  /\ new_size = [w \in Writers |-> InitSize]
  /\ target = 0
  /\ returned = NoValue
  /\ retInactive = NoValue
  /\ retPending = FALSE
  /\ getSteps = 0
  /\ dirtySF = FALSE
  /\ dirtyW = FALSE
  /\ anyFailed = FALSE
  /\ lastCompleted = 0
  /\ expect = 0
  /\ expectFail = 0
  /\ failedActive = 0
  /\ sequential = TRUE
  /\ since = <<>>
  /\ retCtx = <<>>
  /\ pub = "none"
  /\ pre = NoPre
  /\ credit = 0
  /\ setSinceSwap = FALSE

Constructed ==
  /\ needs_swap = FALSE
  /\ resize_mutex = NoWriter
  /\ active = InitialValue(1)
  /\ inactive = InitialValue(2)
  /\ tmp = MovedFrom
  /\ rpc = "idle"
  /\ wpc = [w \in Writers |-> "idle"]
  /\ new_size = [w \in Writers |-> InitSize]
  /\ target = 0
  /\ returned = NoValue
  /\ retInactive = NoValue
  /\ retPending = FALSE
  /\ getSteps = 0
  /\ dirtySF = FALSE
  /\ dirtyW = FALSE
  /\ anyFailed = FALSE
  /\ lastCompleted = 0
  /\ expect = 0
  /\ expectFail = 0
  /\ failedActive = 0
  /\ sequential = TRUE
  /\ since = <<>>
  /\ retCtx = <<>>
  /\ pub = "none"
  /\ pre = NoPre
  /\ credit = 0
  /\ setSinceSwap = FALSE

Init == Constructed /\ history = TRUE

\* the same program with the history variables left alone
InitPlain == Constructed /\ history = FALSE

\* ---- get() ----
\* the call: bool expected = true
GetCall ==
  /\ rpc = "idle"
  /\ rpc' = "cas"
  /\ getSteps' = G(getSteps, 0)
  /\ expect' = G(expect, IF ~anyFailed /\ WritersIdle THEN lastCompleted ELSE 0)
  /\ sequential' = G(sequential, (sequential /\ WritersIdle))
  /\ since' = G(since, IF sequential' THEN since ELSE <<>>)
  /\ retCtx' = G(retCtx, IF sequential' THEN retCtx ELSE <<>>)
  /\ expectFail' = G(expectFail, failedActive)
  /\ UNCHANGED <<slotVars, wpc, new_size, target, readerGhost, dirtySF, dirtyW,
                 failGhost>>
  /\ pre' = G(pre, [flag |-> needs_swap, active |-> active, inactive |-> inactive])
  /\ UNCHANGED <<pub, credit, setSinceSwap>>

\* as GetCAS, swapping whatever the flag says
GetCASAlways ==
  /\ rpc = "cas"
  /\ needs_swap' = FALSE
  /\ rpc' = "swap_tmp"
  /\ getSteps' = G(getSteps, getSteps + 1)
  /\ UNCHANGED <<history, resize_mutex, active, inactive, tmp, wpc, new_size, target,
                 readerGhost, dirtySF, dirtyW, failGhost, expectFail, expect, seqGhost>>
  /\ pub' = G(pub, "none")
  /\ credit' = G(credit, credit - 1)
  /\ setSinceSwap' = G(setSinceSwap, FALSE)
  /\ UNCHANGED pre

\* as GetCAS, waiting until no writer holds resize_mutex
GetCASLocked ==
  /\ rpc = "cas"
  /\ resize_mutex = NoWriter
  /\ IF needs_swap
       THEN needs_swap' = FALSE /\ rpc' = "swap_tmp"
       ELSE needs_swap' = needs_swap /\ rpc' = "ret"
  /\ getSteps' = G(getSteps, getSteps + 1)
  /\ UNCHANGED <<history, resize_mutex, active, inactive, tmp, wpc, new_size, target,
                 readerGhost, dirtySF, dirtyW, failGhost, expectFail, expect, seqGhost>>
  /\ pub' = G(pub, IF needs_swap THEN "none" ELSE pub)
  /\ credit' = G(credit, IF needs_swap THEN credit - 1 ELSE credit)
  /\ setSinceSwap' = G(setSinceSwap, IF needs_swap THEN FALSE ELSE setSinceSwap)
  /\ UNCHANGED pre

\* as GetCAS, with a load of needs_swap in place of the compare-exchange
GetCASNoClear ==
  /\ rpc = "cas"
  /\ IF needs_swap
       THEN needs_swap' = needs_swap /\ rpc' = "swap_tmp"
       ELSE needs_swap' = needs_swap /\ rpc' = "ret"
  /\ getSteps' = G(getSteps, getSteps + 1)
  /\ UNCHANGED <<history, resize_mutex, active, inactive, tmp, wpc, new_size, target,
                 readerGhost, dirtySF, dirtyW, failGhost, expectFail, expect, seqGhost>>
  /\ pub' = G(pub, IF needs_swap THEN "none" ELSE pub)
  /\ credit' = G(credit, IF needs_swap THEN credit - 1 ELSE credit)
  /\ setSinceSwap' = G(setSinceSwap, IF needs_swap THEN FALSE ELSE setSinceSwap)
  /\ UNCHANGED pre

\* needs_swap.compare_exchange_strong(expected, false)
GetCAS ==
  /\ rpc = "cas"
  /\ IF needs_swap
       THEN needs_swap' = FALSE /\ rpc' = "swap_tmp"
       ELSE needs_swap' = needs_swap /\ rpc' = "ret"
  /\ getSteps' = G(getSteps, getSteps + 1)
  /\ UNCHANGED <<history, resize_mutex, active, inactive, tmp, wpc, new_size, target,
                 readerGhost, dirtySF, dirtyW, failGhost, expectFail, expect, seqGhost>>
  /\ pub' = G(pub, IF needs_swap THEN "none" ELSE pub)
  /\ credit' = G(credit, IF needs_swap THEN credit - 1 ELSE credit)
  /\ setSinceSwap' = G(setSinceSwap, IF needs_swap THEN FALSE ELSE setSinceSwap)
  /\ UNCHANGED pre

\* std::swap(active, inactive), first move: T tmp(std::move(active))
GetSwapTmp ==
  /\ rpc = "swap_tmp"
  /\ tmp' = active
  /\ active' = MovedFrom
  /\ rpc' = "swap_active"
  /\ getSteps' = G(getSteps, getSteps + 1)
  /\ UNCHANGED <<history, needs_swap, resize_mutex, inactive, wpc, new_size, target,
                 readerGhost, dirtySF, dirtyW, failGhost, expectFail, expect, seqGhost>>
  /\ UNCHANGED <<pub, pre, credit, setSinceSwap>>

\* second move: active = std::move(inactive)
GetSwapActive ==
  /\ rpc = "swap_active"
  /\ active' = inactive
  /\ inactive' = MovedFrom
  /\ rpc' = "swap_inactive"
  /\ getSteps' = G(getSteps, getSteps + 1)
  /\ UNCHANGED <<history, needs_swap, resize_mutex, tmp, wpc, new_size, target,
                 readerGhost, dirtySF, dirtyW, failGhost, expectFail, expect, seqGhost>>
  /\ UNCHANGED <<pub, pre, credit, setSinceSwap>>

\* as GetSwapInactive, assigning from active instead of the temporary
GetSwapInactiveCopy ==
  /\ rpc = "swap_inactive"
  /\ inactive' = active
  /\ tmp' = MovedFrom
  /\ rpc' = "ret"
  /\ getSteps' = G(getSteps, getSteps + 1)
  /\ UNCHANGED <<history, needs_swap, resize_mutex, active, wpc, new_size, target,
                 readerGhost, dirtySF, dirtyW, failGhost, expectFail, expect, seqGhost>>
  /\ UNCHANGED <<pub, pre, credit, setSinceSwap>>

\* third move: inactive = std::move(tmp)
GetSwapInactive ==
  /\ rpc = "swap_inactive"
  /\ inactive' = tmp
  /\ tmp' = MovedFrom
  /\ rpc' = "ret"
  /\ getSteps' = G(getSteps, getSteps + 1)
  /\ UNCHANGED <<history, needs_swap, resize_mutex, active, wpc, new_size, target,
                 readerGhost, dirtySF, dirtyW, failGhost, expectFail, expect, seqGhost>>
  /\ UNCHANGED <<pub, pre, credit, setSinceSwap>>

\* return active
GetReturn ==
  /\ rpc = "ret"
  /\ rpc' = "idle"
  /\ returned' = G(returned, active)
  /\ retInactive' = G(retInactive, inactive)
  /\ retPending' = G(retPending, needs_swap)
  /\ getSteps' = G(getSteps, 0)
  /\ expect' = G(expect, 0)
  /\ dirtySF' = G(dirtySF, FALSE)
  /\ dirtyW' = G(dirtyW, FALSE)
  /\ retCtx' = G(retCtx, IF sequential THEN since ELSE <<>>)
  /\ since' = G(since, <<>>)
  /\ expectFail' = G(expectFail, 0)
  /\ UNCHANGED <<slotVars, wpc, new_size, target, failGhost, sequential>>
  /\ pre' = G(pre, NoPre)
  /\ UNCHANGED <<pub, credit, setSinceSwap>>

ReaderStep ==
  GetCall \/ GetCAS \/ GetSwapTmp \/ GetSwapActive \/ GetSwapInactive \/ GetReturn

\* ---- resize_and_clear(new_size) ----
\* the call, before std::lock_guard lock(resize_mutex) is through
ResizeCall(w, n) ==
  /\ wpc[w] = "idle"
  /\ wpc' = [wpc EXCEPT ![w] = "lock"]
  /\ new_size' = [new_size EXCEPT ![w] = n]
  /\ dirtySF' = G(dirtySF, TRUE)
  /\ dirtyW' = G(dirtyW, TRUE)
  /\ expect' = G(expect, IF rpc = "idle" THEN expect ELSE 0)
  /\ sequential' = G(sequential, (sequential /\ AllIdle))
  /\ since' = G(since, IF sequential' THEN since ELSE <<>>)
  /\ retCtx' = G(retCtx, IF sequential' THEN retCtx ELSE <<>>)
  /\ UNCHANGED <<slotVars, rpc, target, readerGhost, getSteps, failGhost, expectFail>>
  /\ pub' = G(pub, IF pub \in {"returned", "returnedBusy"} THEN "none" ELSE pub)
  /\ pre' = G(pre, NoPre)
  /\ UNCHANGED <<credit, setSinceSwap>>

\* as Lock, with an unnamed guard, std::lock_guard(resize_mutex), that is
\* destroyed at the end of its own statement
LockTemporary(w) ==
  /\ wpc[w] = "lock"
  /\ resize_mutex = NoWriter
  /\ resize_mutex' = NoWriter
  /\ wpc' = [wpc EXCEPT ![w] = "clear"]
  /\ dirtyW' = G(dirtyW, TRUE)
  /\ UNCHANGED <<history, needs_swap, active, inactive, tmp, rpc, new_size, target,
                 readerGhost, getSteps, dirtySF, failGhost, expectFail, expect,
                 seqGhost>>
  /\ pre' = G(pre, NoPre)
  /\ UNCHANGED <<pub, credit, setSinceSwap>>

\* as Lock, not waiting for the holder to release the mutex
LockNoWait(w) ==
  /\ wpc[w] = "lock"
  /\ resize_mutex' = w
  /\ wpc' = [wpc EXCEPT ![w] = "clear"]
  /\ dirtyW' = G(dirtyW, TRUE)
  /\ UNCHANGED <<history, needs_swap, active, inactive, tmp, rpc, new_size, target,
                 readerGhost, getSteps, dirtySF, failGhost, expectFail, expect,
                 seqGhost>>
  /\ pre' = G(pre, NoPre)
  /\ UNCHANGED <<pub, credit, setSinceSwap>>

\* std::lock_guard lock(resize_mutex): blocks while another writer holds it
Lock(w) ==
  /\ wpc[w] = "lock"
  /\ resize_mutex = NoWriter
  /\ resize_mutex' = w
  /\ wpc' = [wpc EXCEPT ![w] = "clear"]
  /\ dirtyW' = G(dirtyW, TRUE)
  /\ UNCHANGED <<history, needs_swap, active, inactive, tmp, rpc, new_size, target,
                 readerGhost, getSteps, dirtySF, failGhost, expectFail, expect,
                 seqGhost>>
  /\ pre' = G(pre, NoPre)
  /\ UNCHANGED <<pub, credit, setSinceSwap>>

\* as ClearFlag, returning early when a swap is already pending
ClearFlagSkip(w) ==
  /\ wpc[w] = "clear"
  /\ needs_swap' = needs_swap
  /\ wpc' = [wpc EXCEPT ![w] = IF needs_swap THEN "unlock" ELSE "fn"]
  /\ dirtyW' = G(dirtyW, TRUE)
  /\ UNCHANGED <<history, resize_mutex, active, inactive, tmp, rpc, new_size, target,
                 readerGhost, getSteps, dirtySF, failGhost, expectFail, expect, seqGhost>>
  /\ pre' = G(pre, NoPre)
  /\ UNCHANGED <<pub, credit, setSinceSwap>>

\* as ClearFlag, with the store left out
ClearFlagDropped(w) ==
  /\ wpc[w] = "clear"
  /\ needs_swap' = needs_swap
  /\ wpc' = [wpc EXCEPT ![w] = "fn"]
  /\ dirtyW' = G(dirtyW, TRUE)
  /\ UNCHANGED <<history, resize_mutex, active, inactive, tmp, rpc, new_size, target,
                 readerGhost, getSteps, dirtySF, failGhost, expectFail, expect, seqGhost>>
  /\ pre' = G(pre, NoPre)
  /\ UNCHANGED <<pub, credit, setSinceSwap>>

\* needs_swap = false
ClearFlag(w) ==
  /\ wpc[w] = "clear"
  /\ needs_swap' = FALSE
  /\ wpc' = [wpc EXCEPT ![w] = "fn"]
  /\ dirtyW' = G(dirtyW, TRUE)
  /\ UNCHANGED <<history, resize_mutex, active, inactive, tmp, rpc, new_size, target,
                 readerGhost, getSteps, dirtySF, failGhost, expectFail, expect, seqGhost>>
  /\ pre' = G(pre, NoPre)
  /\ UNCHANGED <<pub, credit, setSinceSwap>>

\* resize_and_clear_fn(inactive, new_size) starts: it works through the
\* reference to the member inactive and takes hold of the object found there
StrategyBegin(w) ==
  /\ wpc[w] = "fn"
  /\ inactive' = Partial(inactive)
  /\ target' = inactive.id
  /\ wpc' = [wpc EXCEPT ![w] = "fn_run"]
  /\ dirtyW' = G(dirtyW, TRUE)
  /\ UNCHANGED <<history, needs_swap, resize_mutex, active, tmp, rpc, new_size,
                 readerGhost, getSteps, dirtySF, failGhost, expectFail, expect, seqGhost>>
  /\ pre' = G(pre, NoPre)
  /\ UNCHANGED <<pub, credit, setSinceSwap>>

\* Where the rest of the running resize function lands.  Without a swap in
\* between it is the member inactive.  A swap in between is a data race
\* with the function: it lands in the member inactive, or in the object it
\* started on, wherever std::swap has moved that object to.
StrategyLocs ==
  {"inactive"}
    \cup (IF target # 0 /\ active.id = target THEN {"active"} ELSE {})
    \cup (IF target # 0 /\ tmp.id = target THEN {"tmp"} ELSE {})

\* resize_and_clear_fn(inactive, new_size) finishes and returns
StrategyEnd(w) ==
  /\ wpc[w] = "fn_run"
  /\ \E loc \in StrategyLocs :
       /\ active' = IF loc = "active" THEN Resized(active, new_size[w]) ELSE active
       /\ inactive' = IF loc = "inactive" THEN Resized(inactive, new_size[w]) ELSE inactive
       /\ tmp' = IF loc = "tmp" THEN Resized(tmp, new_size[w]) ELSE tmp
  /\ target' = 0
  /\ wpc' = [wpc EXCEPT ![w] = "set"]
  /\ dirtyW' = G(dirtyW, TRUE)
  /\ UNCHANGED <<history, needs_swap, resize_mutex, rpc, new_size,
                 readerGhost, getSteps, dirtySF, failGhost, expectFail, expect, seqGhost>>
  /\ pre' = G(pre, NoPre)
  /\ UNCHANGED <<pub, credit, setSinceSwap>>

\* resize_and_clear_fn throws, before or after it has begun to change the
\* object: the statements after it are skipped
StrategyFail(w) ==
  /\ wpc[w] \in {"fn", "fn_run"}
  /\ wpc' = [wpc EXCEPT ![w] = "unwind"]
  /\ target' = 0
  /\ anyFailed' = G(anyFailed, TRUE)
  /\ lastCompleted' = G(lastCompleted, 0)
  /\ dirtyW' = G(dirtyW, TRUE)
  /\ UNCHANGED <<slotVars, rpc, new_size, readerGhost, getSteps, dirtySF,
                 failedActive, expectFail, expect, seqGhost>>
  /\ pre' = G(pre, NoPre)
  /\ UNCHANGED <<pub, credit, setSinceSwap>>

\* as SetFlag, with the store left out
SetFlagDropped(w) ==
  /\ wpc[w] = "set"
  /\ needs_swap' = needs_swap
  /\ wpc' = [wpc EXCEPT ![w] = "unlock"]
  /\ failedActive' = G(failedActive, 0)
  /\ expectFail' = G(expectFail, 0)
  /\ dirtyW' = G(dirtyW, TRUE)
  /\ UNCHANGED <<history, resize_mutex, active, inactive, tmp, rpc, new_size, target,
                 readerGhost, getSteps, dirtySF, anyFailed, lastCompleted, expect,
                 seqGhost>>
  /\ pub' = G(pub, "set")
  /\ credit' = G(credit, IF credit < MaxCredit THEN credit + 1 ELSE credit)
  /\ setSinceSwap' = G(setSinceSwap, TRUE)
  /\ pre' = G(pre, NoPre)

\* needs_swap = true
SetFlag(w) ==
  /\ wpc[w] = "set"
  /\ needs_swap' = TRUE
  /\ wpc' = [wpc EXCEPT ![w] = "unlock"]
  /\ failedActive' = G(failedActive, 0)
  /\ expectFail' = G(expectFail, 0)
  /\ dirtyW' = G(dirtyW, TRUE)
  /\ UNCHANGED <<history, resize_mutex, active, inactive, tmp, rpc, new_size, target,
                 readerGhost, getSteps, dirtySF, anyFailed, lastCompleted, expect,
                 seqGhost>>
  /\ pub' = G(pub, "set")
  /\ credit' = G(credit, IF credit < MaxCredit THEN credit + 1 ELSE credit)
  /\ setSinceSwap' = G(setSinceSwap, TRUE)
  /\ pre' = G(pre, NoPre)

\* end of scope on the normal path: ~lock_guard, then the call returns
Unlock(w) ==
  /\ wpc[w] = "unlock"
  /\ resize_mutex' = NoWriter
  /\ wpc' = [wpc EXCEPT ![w] = "idle"]
  /\ new_size' = [new_size EXCEPT ![w] = InitSize]
  /\ lastCompleted' = G(lastCompleted, IF anyFailed THEN 0 ELSE new_size[w])
  /\ since' = G(since, IF sequential THEN Log(since, new_size[w]) ELSE <<>>)
  /\ dirtySF' = G(dirtySF, TRUE)
  /\ dirtyW' = G(dirtyW, TRUE)
  /\ UNCHANGED <<history, needs_swap, active, inactive, tmp, rpc, target,
                 readerGhost, getSteps, anyFailed, failedActive, expectFail,
                 expect, sequential, retCtx>>
  /\ pub' = G(pub, IF pub # "set" THEN pub
                   ELSE IF \A v \in Writers \ {w} : wpc[v] = "idle"
                          THEN "returned" ELSE "returnedBusy")
  /\ pre' = G(pre, NoPre)
  /\ UNCHANGED <<credit, setSinceSwap>>

\* as Unwind, with a lock()/unlock() pair in place of the guard: the
\* exception skips the unlock
UnwindLeak(w) ==
  /\ wpc[w] = "unwind"
  /\ resize_mutex' = resize_mutex
  /\ wpc' = [wpc EXCEPT ![w] = "idle"]
  /\ new_size' = [new_size EXCEPT ![w] = InitSize]
  /\ failedActive' = G(failedActive, active.id)
  /\ since' = G(since, IF sequential THEN Log(since, 0) ELSE <<>>)
  /\ dirtySF' = G(dirtySF, TRUE)
  /\ dirtyW' = G(dirtyW, TRUE)
  /\ UNCHANGED <<history, needs_swap, active, inactive, tmp, rpc, target,
                 readerGhost, getSteps, anyFailed, lastCompleted, expectFail,
                 expect, sequential, retCtx>>
  /\ pre' = G(pre, NoPre)
  /\ UNCHANGED <<pub, credit, setSinceSwap>>

\* as Unwind, with needs_swap = true stored by a scope guard on the way out
UnwindPublish(w) ==
  /\ wpc[w] = "unwind"
  /\ resize_mutex' = NoWriter
  /\ needs_swap' = TRUE
  /\ wpc' = [wpc EXCEPT ![w] = "idle"]
  /\ new_size' = [new_size EXCEPT ![w] = InitSize]
  /\ failedActive' = G(failedActive, active.id)
  /\ since' = G(since, IF sequential THEN Log(since, 0) ELSE <<>>)
  /\ dirtySF' = G(dirtySF, TRUE)
  /\ dirtyW' = G(dirtyW, TRUE)
  /\ UNCHANGED <<history, active, inactive, tmp, rpc, target,
                 readerGhost, getSteps, anyFailed, lastCompleted, expectFail,
                 expect, sequential, retCtx>>
  /\ pre' = G(pre, NoPre)
  /\ UNCHANGED <<pub, credit, setSinceSwap>>

\* stack unwinding on the exception: ~lock_guard, then the call ends
Unwind(w) ==
  /\ wpc[w] = "unwind"
  /\ resize_mutex' = NoWriter
  /\ wpc' = [wpc EXCEPT ![w] = "idle"]
  /\ new_size' = [new_size EXCEPT ![w] = InitSize]
  /\ failedActive' = G(failedActive, active.id)
  /\ since' = G(since, IF sequential THEN Log(since, 0) ELSE <<>>)
  /\ dirtySF' = G(dirtySF, TRUE)
  /\ dirtyW' = G(dirtyW, TRUE)
  /\ UNCHANGED <<history, needs_swap, active, inactive, tmp, rpc, target,
                 readerGhost, getSteps, anyFailed, lastCompleted, expectFail,
                 expect, sequential, retCtx>>
  /\ pre' = G(pre, NoPre)
  /\ UNCHANGED <<pub, credit, setSinceSwap>>

\* the steps of a call that holds or waits for the lock
WriterRun(w) ==
  \/ Lock(w) \/ ClearFlag(w) \/ StrategyBegin(w) \/ StrategyEnd(w)
  \/ StrategyFail(w) \/ SetFlag(w) \/ Unlock(w) \/ Unwind(w)

WriterStep == \E w \in Writers : WriterRun(w) \/ \E n \in Sizes : ResizeCall(w, n)

\* ---- specifications ----
Next ==
  \/ GetCall
  \/ GetCAS
  \/ GetSwapTmp
  \/ GetSwapActive
  \/ GetSwapInactive
  \/ GetReturn
  \/ \E w \in Writers, n \in Sizes : ResizeCall(w, n)
  \/ \E w \in Writers : Lock(w)
  \/ \E w \in Writers : ClearFlag(w)
  \/ \E w \in Writers : StrategyBegin(w)
  \/ \E w \in Writers : StrategyEnd(w)
  \/ \E w \in Writers : StrategyFail(w)
  \/ \E w \in Writers : SetFlag(w)
  \/ \E w \in Writers : Unlock(w)
  \/ \E w \in Writers : Unwind(w)

\* every interleaving of the reader and the writers
Spec == Init /\ [][Next]_vars

\* calls made one after the other: a call starts only when no call is running
SeqNext ==
  \/ AllIdle /\ GetCall
  \/ GetCAS
  \/ GetSwapTmp
  \/ GetSwapActive
  \/ GetSwapInactive
  \/ GetReturn
  \/ \E w \in Writers, n \in Sizes : AllIdle /\ ResizeCall(w, n)
  \/ \E w \in Writers : Lock(w)
  \/ \E w \in Writers : ClearFlag(w)
  \/ \E w \in Writers : StrategyBegin(w)
  \/ \E w \in Writers : StrategyEnd(w)
  \/ \E w \in Writers : StrategyFail(w)
  \/ \E w \in Writers : SetFlag(w)
  \/ \E w \in Writers : Unlock(w)
  \/ \E w \in Writers : Unwind(w)

SpecSeq == Init /\ [][SeqNext]_vars

\* fair scheduling of the threads, a resize function that ends, and a mutex
\* that does not starve a waiting writer
SpecFair ==
  /\ InitPlain /\ [][Next]_vars
  /\ WF_vars(ReaderStep)
  /\ \A w \in Writers :
       /\ WF_vars(ClearFlag(w) \/ StrategyBegin(w) \/ StrategyEnd(w)
                    \/ SetFlag(w) \/ Unlock(w) \/ Unwind(w))
       /\ SF_vars(Lock(w))

TypeOK ==
  /\ needs_swap \in BOOLEAN
  /\ resize_mutex \in Writers \cup {NoWriter}
  /\ rpc \in {"idle", "cas", "swap_tmp", "swap_active", "swap_inactive", "ret"}
  /\ wpc \in [Writers -> {"idle", "lock", "clear", "fn", "fn_run", "set", "unlock", "unwind"}]
  /\ new_size \in [Writers -> Sizes]
  /\ \A v \in {active, inactive, tmp} :
       v.id \in 0..2 /\ v.size \in 0..MaxSize
         /\ v.content \in {"initial", "cleared", "partial", "moved"}

\* ---- properties ----
\* steps of get(): the compare-exchange and the three moves of std::swap
MaxGetSteps == 4

Last(s) == s[Len(s)]
SameValue(a, b) == a.size = b.size /\ a.content = b.content
GetReturns == rpc = "ret" /\ rpc' = "idle"
NoResizeYet == lastCompleted = 0 /\ ~anyFailed /\ WritersIdle

\* C1: while no resize function invocation has failed, no get() returns an
\* instance that a resize function has started on and not finished: what
\* get() returns has the size it had before a resize or the size of a
\* finished one, in every interleaving of the reader and the writers.
NoPartialReturned == ~anyFailed => returned.content # "partial"

\* C2: last writer wins.  With no failed invocation, a get() that begins
\* when a resize_and_clear has returned and none is running (and none
\* starts before it returns) returns an instance of the size of the last
\* returned resize_and_clear.
LastWriterWins == [][(GetReturns /\ expect # 0) => returned'.size = expect]_vars

\* C3: calls made one after the other: resize_and_clear(n) returns normally
\* and the next call is a get(); that get() returns an instance of size n
\* with the content the resize function produced.
ResizeThenGet ==
  (retCtx # <<>> /\ Last(retCtx) # 0)
    => (returned.size = Last(retCtx) /\ returned.content = "cleared")

ResizeThenGetSeen ==
  /\ retCtx # <<>> /\ Last(retCtx) = MaxSize
  /\ rpc = "idle" /\ returned.size = MaxSize

\* C4: calls made one after the other: resize_and_clear(n1) and
\* resize_and_clear(n2) both return normally with no get() between them,
\* and the next call is a get(); that get() returns an instance of size n2,
\* and not the size n1 result of the first call.
BackToBackResizes ==
  (Len(retCtx) >= 2 /\ Last(retCtx) # 0 /\ retCtx[Len(retCtx) - 1] # 0)
    => /\ returned.size = Last(retCtx)
       /\ returned.content = "cleared"
       /\ (retCtx[Len(retCtx) - 1] # Last(retCtx)
             => returned.size # retCtx[Len(retCtx) - 1])

BackToBackSeen ==
  /\ Len(retCtx) >= 2 /\ Last(retCtx) # 0 /\ retCtx[Len(retCtx) - 1] # 0
  /\ retCtx[Len(retCtx) - 1] # Last(retCtx)
  /\ rpc = "idle" /\ returned.size = Last(retCtx)

\* C5 as stated: a get() that returned with no swap pending is followed by
\* a get() with no resize_and_clear starting or ending in between; the
\* second get() returns the same instance, needs_swap is false, and active
\* and inactive are as the first get() left them.
GetIdempotentNoStartEnd ==
  [][(GetReturns /\ returned # NoValue /\ ~retPending /\ ~dirtySF)
       => (returned' = returned /\ active' = returned
             /\ inactive' = retInactive /\ ~needs_swap')]_vars

\* C5 amended: a get() that returned with no swap pending is followed by a
\* get() with no step of any resize_and_clear in between (none starting,
\* running or ending); the second get() returns the same instance,
\* needs_swap is false, and active and inactive are as the first get()
\* left them.
GetIdempotent ==
  [][(GetReturns /\ returned # NoValue /\ ~retPending /\ ~dirtyW)
       => (returned' = returned /\ active' = returned
             /\ inactive' = retInactive /\ ~needs_swap')]_vars

\* the second get() is about to return what the first returned, a resized
\* instance, and no writer has taken a step since the first returned
GetIdempotentSeen ==
  /\ rpc = "ret" /\ returned # NoValue /\ ~retPending /\ ~dirtyW
  /\ returned.content = "cleared" /\ active = returned

\* C6: when the resize function throws, needs_swap is false as the call
\* ends; from then until a later call has set needs_swap, a get() that
\* begins returns the instance that was active around the failed call, and
\* no get() returns an instance the resize function left half way.
FailedResizeKeepsActive ==
  /\ [](\A w \in Writers : wpc[w] = "unwind" => ~needs_swap)
  /\ [][(GetReturns /\ expectFail # 0) => returned'.id = expectFail]_vars
  /\ [][(GetReturns /\ failedActive # 0) => returned'.content # "partial"]_vars

\* C7: resize_mutex is released on every way out of resize_and_clear: a
\* writer outside the guarded statements does not hold it and the holder is
\* inside them, and a writer waiting for the mutex gets it in the end.
LockReleased ==
  /\ [](\A w \in Writers : wpc[w] \in {"idle", "lock"} => resize_mutex # w)
  /\ [](resize_mutex # NoWriter => wpc[resize_mutex] \notin {"idle", "lock"})
  /\ \A w \in Writers : (wpc[w] = "lock") ~> (resize_mutex = w)

LockReleasedSeen ==
  \E w, v \in Writers : wpc[w] = "lock" /\ wpc[v] = "unwind" /\ resize_mutex = v

\* C8: the reader is never blocked: in every state, whatever the writers
\* hold or run, the reader's next step is enabled, and a get() takes no
\* more than its compare-exchange and three moves before it returns.
ReaderNeverBlocked == ENABLED ReaderStep /\ getSteps <= MaxGetSteps

ReaderNeverBlockedSeen ==
  \E w \in Writers :
    resize_mutex = w /\ wpc[w] = "fn_run" /\ rpc = "ret" /\ getSteps = MaxGetSteps

\* C9: from the return of a get() to the start of the reader's next get(),
\* no step of a resize_and_clear changes the instance that get() returned.
ReturnedUntouched == (rpc = "idle" /\ returned # NoValue) => active = returned

\* C10: until the first resize_and_clear is called, active and inactive both
\* hold the initial value and needs_swap is false, and a get() returns the
\* initial value without swapping.
InitialState ==
  NoResizeYet
    => /\ active = InitialValue(1)
       /\ SameValue(inactive, active)
       /\ ~needs_swap
       /\ rpc \in {"idle", "cas", "ret"}
       /\ returned # NoValue => returned = InitialValue(1)

InitialStateSeen == NoResizeYet /\ returned = InitialValue(1) /\ rpc = "idle"

\* the thread that takes the step: the one whose position changes
StepOfHolder == \E w \in Writers : wpc'[w] # wpc[w] /\ resize_mutex = w
StepOfReader == rpc' # rpc

\* C11 as stated: every step that changes the member inactive, the swap
\* of get() included, is taken by a thread that holds resize_mutex.
InactiveOnlyUnderLock == [][inactive' # inactive => StepOfHolder]_vars

\* C11 amended: every step that changes the member inactive is taken by a
\* writer that holds resize_mutex, or is a move of the std::swap in get(),
\* which the reader makes without the mutex.
InactiveUnderLockOrSwap ==
  [][inactive' # inactive
       => \/ StepOfHolder
          \/ StepOfReader /\ rpc \in {"swap_active", "swap_inactive"}]_vars

\* the resize function has changed inactive under the mutex and the reader
\* is in the middle of the swap
InactiveUnderLockOrSwapSeen ==
  \E w \in Writers :
    /\ resize_mutex = w /\ wpc[w] = "fn_run" /\ inactive.content = "partial"
    /\ rpc = "swap_active"

\* the statements of resize_and_clear between taking and releasing the mutex
Guarded == {"clear", "fn", "fn_run", "set", "unlock", "unwind"}

\* C13: calls of resize_and_clear from several writers are serialized: at
\* most one writer is between taking and releasing resize_mutex, it is the
\* holder, and so the resize function never runs in two threads at once.
WritersSerialized ==
  \A w, v \in Writers :
    wpc[w] \in Guarded => (resize_mutex = w /\ (v # w => wpc[v] \notin Guarded))

\* one writer runs the resize function while another waits for the mutex
WritersSerializedSeen ==
  \E w, v \in Writers : wpc[w] = "fn_run" /\ resize_mutex = w /\ wpc[v] = "lock"

\* C15: needs_swap is never true while a resize function invocation is in
\* progress: whenever some writer is between the start and the end of the
\* call of the resize function on inactive, needs_swap is false.
NoSwapFlagDuringResize ==
  \A w \in Writers : wpc[w] = "fn_run" => ~needs_swap

\* the resize function runs in a call that found a swap pending: an earlier
\* call has returned and no get() has run since construction
NoSwapFlagDuringResizeSeen ==
  /\ \E w \in Writers : wpc[w] = "fn_run"
  /\ lastCompleted # 0 /\ rpc = "idle" /\ returned = NoValue

\* C16: whenever no call is running, active and inactive hold the two
\* instances made at construction, one each: the swap of get() neither
\* puts one instance into both members nor drops one.
BothInstancesKept ==
  AllIdle => ({active.id, inactive.id} = {1, 2} /\ tmp = MovedFrom)

\* after two swaps the instance that was active at construction is active
\* again, resized
BothInstancesKeptSeen ==
  AllIdle /\ active.id = 1 /\ active.content = "cleared" /\ inactive.id = 2

\* the instance the reader had before the calls logged in since
PriorActive == IF returned = NoValue THEN InitialValue(1) ELSE returned
\* a normally returned resize_and_clear followed by a failed one
DiscardPattern(s) == Len(s) >= 2 /\ Last(s) = 0 /\ s[Len(s) - 1] # 0

\* C18: calls made one after the other: resize_and_clear(n1) returns
\* normally, no get() runs, resize_and_clear(n2) fails in the resize
\* function.  Then needs_swap is false, and the next get() calls return the
\* instance that was active before the n1 call, not the one that was
\* resized to n1.
FailureDiscardsPending ==
  /\ []((AllIdle /\ DiscardPattern(since))
          => (~needs_swap /\ active = PriorActive /\ inactive.id # active.id))
  /\ [][(GetReturns /\ DiscardPattern(since))
          => (returned' = PriorActive /\ ~needs_swap')]_vars
  /\ [][(GetReturns /\ since = <<>> /\ DiscardPattern(retCtx))
          => (returned' = returned /\ ~needs_swap')]_vars

\* a get() has returned after the two calls; the instance the failed call
\* left half way is still the inactive one
FailureDiscardsPendingSeen ==
  /\ AllIdle /\ DiscardPattern(retCtx) /\ since = <<>>
  /\ returned = active /\ returned.content # "partial"
  /\ inactive.content = "partial"

\* C12 as stated: from the normal return of a resize_and_clear until get()
\* consumes the swap, needs_swap is true, unless another resize_and_clear
\* has been called since that return.
SwapPendingAfterReturn == pub \in {"returned", "returnedBusy"} => needs_swap

\* C12 amended: from the normal return of a resize_and_clear until get()
\* consumes the swap, needs_swap is true, unless another resize_and_clear
\* was already called and not yet ended at that return, or has been called
\* since.
SwapPendingAfterQuietReturn == pub = "returned" => needs_swap

\* the call has returned, no other call has started, and the reader is at
\* the compare-exchange that will consume the swap
SwapPendingAfterQuietReturnSeen ==
  pub = "returned" /\ needs_swap /\ WritersIdle /\ rpc = "cas"

\* C14: a get() that no writer step interrupts tests and clears
\* needs_swap.  Flag true at the call: it returns the instance that was
\* inactive, the instance that was active is the inactive one, neither is
\* changed, and the flag is false.  Flag false at the call: it returns the
\* active instance and changes nothing.
GetTestAndClear ==
  [][(GetReturns /\ pre # NoPre)
       => IF pre.flag
            THEN /\ returned' = pre.inactive /\ active' = pre.inactive
                 /\ inactive' = pre.active /\ ~needs_swap'
            ELSE /\ returned' = pre.active /\ active' = pre.active
                 /\ inactive' = pre.inactive /\ ~needs_swap']_vars

\* an uninterrupted get() that found the flag true is about to return the
\* resized instance
GetTestAndClearSeen ==
  /\ rpc = "ret" /\ pre # NoPre /\ pre.flag
  /\ active = pre.inactive /\ active.content = "cleared" /\ inactive = pre.active

\* C17: get() never swaps more often than needs_swap = true has been
\* stored, and every swap has a store of needs_swap = true between it and
\* the swap before it: two get() calls in a row do not both swap unless a
\* resize_and_clear set the flag between their compare-exchanges.
SwapsWithinSets ==
  /\ [](credit >= 0)
  /\ [][(rpc = "cas" /\ rpc' = "swap_tmp") => setSinceSwap]_vars

\* two stores and one swap so far, and the next get() has not swapped
SwapsWithinSetsSeen ==
  credit = 1 /\ ~setSinceSwap /\ rpc = "ret" /\ getSteps = 1
====
